---- MODULE Spec2Model ----
(***************************************************************************)
(* Model of the live tracking / event-log console of susin-d/scralet.      *)
(*                                                                         *)
(*   DashboardPage (admin variant)  src/frontend/components/DashboardPage.tsx *)
(*   EventLog                       src/frontend/components/charts/OccupancyChart.tsx *)
(*   useMockWebSocket               src/frontend/components/Modal.tsx      *)
(*   CameraFeed                     src/frontend/components/DashboardPage.tsx *)
(*                                                                         *)
(* Each component is a group of variables with its own actions; a          *)
(* specification per component leaves the other components' variables      *)
(* at their initial values.                                                *)
(***************************************************************************)
EXTENDS Integers, Sequences, FiniteSets, TLC

VARIABLES
    \* ---- DashboardPage ----
    mounted,            \* the page component is mounted
    monitoringEnabled,  \* useState(true)
    socketStatus,       \* useState('connecting')
    eventLog,           \* useState([]) : live pushed entries, newest first
    alerts,             \* useState(0)
    cameras,            \* useState(INITIAL_CAMERAS) : ids of the camera list
    sockets,            \* readyState of every dashboard WebSocket created
    camFetches,         \* fetchCameras() calls in flight
    pollPending,        \* an alerts/count request is in flight
    \* ---- EventLog ----
    fetchedEntries,     \* useState([]) : historical entries
    logsFetch,          \* state of the fetchLogs() request
    \* ---- history of the dashboard channel (observation only) ----
    arrivals,           \* number of message events dispatched to ws.onmessage
    lastMsg,            \* the event.data of the latest message event
    appended,           \* entries prepended to eventLog, in arrival order
    \* ---- useMockWebSocket: module level ----
    personCounter,      \* let personCounter = 0
    knownPeople,        \* let knownPeople: KnownPerson[] = []
    \* ---- useMockWebSocket: per effect instance ----
    hookMounted,        \* the effect has run and its cleanup has not
    hookCams,           \* the cameras prop the effect closed over
    liveObjects,        \* liveObjects[cam.id] : the objects (session ids) of a camera
    objs,               \* the TrackedObject of every session id created
    connectPending,     \* connectTimeout is scheduled
    firstTick,          \* the interval has fired since the effect ran
    reconnectTimers,    \* inner setTimeout(..., 3000) calls not yet fired
    \* ---- what the hook's callbacks were called with ----
    cStatus,            \* the latest onStatusChange argument
    cTracked,           \* the latest onTrackingUpdate objects, per camera
    out,                \* the callbacks called by the latest step
    mintLog,            \* every KnownPerson pushed, in order
    idEvents,           \* the identifications made since knownPeople was last empty
    ticks,              \* interval callbacks so far
    \* ---- CameraFeed ----
    trackedObjects,     \* useState(camera.trackedObjects || []) : wire objects
    feedSocket,         \* readyState of the tracking WebSocket
    trackFetch,         \* state of the fetchTrackingData() request
    feedError,          \* useState<string | null>(null)
    everIdentified,     \* the object ids ever presented as 'identified'
    feedStep,           \* the latest event of the camera tiles
    fetchBody,          \* the tracked_objects of the fetch response in flight
    newest,             \* the snapshot produced last for each camera
    \* ---- Dashboard (analytics page) ----
    stats,              \* useState<DashboardStats | null>(null)
    recentLogs,         \* logs: useState<LogEntry[]>([]) : log ids, newest first
    loading,            \* useState(true)
    error,              \* useState<string | null>(null)
    dataFetch,          \* state of the fetchData() call
    fetchedLogs,        \* logsData of the response in flight
    serverLogs,         \* number of logs the server has stored
    pushed              \* ids of the log_update messages received, in order

dashVars == <<mounted, monitoringEnabled, socketStatus, eventLog, alerts,
              cameras, sockets, camFetches, pollPending, fetchedEntries,
              logsFetch, arrivals, lastMsg, appended>>

mockVars == <<personCounter, knownPeople, hookMounted, hookCams, liveObjects, objs,
              connectPending, firstTick, reconnectTimers, cStatus, cTracked,
              out, mintLog, idEvents, ticks>>

feedVars == <<trackedObjects, feedSocket, trackFetch, feedError, everIdentified,
              feedStep, fetchBody, newest>>

pageVars == <<stats, recentLogs, loading, error, dataFetch, fetchedLogs, serverLogs,
              pushed>>

vars == <<dashVars, mockVars, feedVars, pageVars>>

----------------------------------------------------------------------------
(* Bounds *)

MaxSockets  == 2    \* dashboard sockets created in one behaviour
MaxArrivals == 2    \* message events in one behaviour of Spec
MaxFill     == 102  \* message events in one behaviour of SpecLogFill
MaxRefresh  == 1    \* fetchCameras() calls in one behaviour
MaxCount    == 1    \* largest count an alerts/count response carries
MaxTicks       == 4 \* interval callbacks in one behaviour
MaxSessions    == 2 \* objects created in one behaviour
StoredLogs     == 8 \* logs the server has stored when the analytics page mounts
MaxUpdates     == 5 \* log_update messages in one behaviour

(* Program constants *)

LogCap     == 100   \* newLog.length > 100 ? newLog.slice(0, 100)
FetchLimit == 50    \* /logs?limit=50
DayLen     == 86400 \* seconds per day, for toLocaleTimeString
PageLimit  == 10    \* dashboardApi.getLogs(10)
KeepLogs   == 9     \* prev.slice(0, 9)

----------------------------------------------------------------------------
(* Strings are sequences of one-character strings. *)

LowerOf == [I |-> "i", D |-> "d", E |-> "e", N |-> "n", T |-> "t", F |-> "f",
            H |-> "h", U |-> "u"]

\* String.prototype.toLowerCase
toLowerCase(s) ==
    [i \in 1..Len(s) |-> IF s[i] \in DOMAIN LowerOf THEN LowerOf[s[i]] ELSE s[i]]

\* String.prototype.includes
includes(hay, needle) ==
    \E i \in 0..(Len(hay) - Len(needle)) :
        SubSeq(hay, i + 1, i + Len(needle)) = needle

Identified == <<"i","d","e","n","t","i","f","i","e","d">>

\* Array.prototype.slice(0, n)
slice0(s, n) == SubSeq(s, 1, IF Len(s) < n THEN Len(s) ELSE n)

----------------------------------------------------------------------------
(* DashboardPage: the dashboard channel message handler *)

\* A JSON value of a message field: a string, or anything else
\* (undefined, a number, ...), on which .toLowerCase is not a function.
Str(chars) == [tag |-> "string", chars |-> chars]
NotAString == [tag |-> "other", chars |-> <<>>]

\* event.data of a message event: unparseable text, or a parsed object with
\* its type, and its data object when it has one.
BadJson == [json |-> "bad", type |-> "", hasData |-> FALSE,
            timestamp |-> 0, camera |-> "", message |-> NotAString]
Frame(type, hasData, ts, cam, msg) ==
    [json |-> "ok", type |-> type, hasData |-> hasData,
     timestamp |-> ts, camera |-> cam, message |-> msg]
NewLog(ts, cam, msg) == Frame("new_log", TRUE, ts, cam, msg)

MsgIdentified == <<"N","e","w"," ","i","d","e","n","t","i","f","i","e","d">>
MsgUpper      == <<"I","D","E","N","T","I","F","I","E","D","!">>
MsgMixed      == <<"U","n","I","d","e","n","T","i","f","i","e","D">>
MsgNearMiss   == <<"i","d","e","n","t","i","f","i","e","r">>
MsgLeft       == <<"H","u","m","a","n"," ","l","e","f","t">>

\* LogEntry built by ws.onmessage
LogEntry(raw) ==
    [timestamp |-> raw.timestamp, camera |-> raw.camera, message |-> raw.message]

\* A cap that drops the newest entry instead of the oldest
CapLog_DropsNewest(newLog) ==
    IF Len(newLog) > LogCap THEN SubSeq(newLog, 2, Len(newLog)) ELSE newLog

\* newLog.length > 100 ? newLog.slice(0, 100) : newLog
CapLog(newLog) == IF Len(newLog) > LogCap THEN slice0(newLog, LogCap) ELSE newLog

\* setEventLog(prevLog => ...)
PrependLog(entry, prevLog) == CapLog(<<entry>> \o prevLog)

\* The match without toLowerCase()
IsAlert_CaseSensitive(msg) == includes(msg.chars, Identified)

\* data.data.message.toLowerCase().includes('identified')
IsAlert(msg) == includes(toLowerCase(msg.chars), Identified)

\* setAlerts(prev => prev + 1), when the message matches
AlertsAfter(prev, msg) == IF IsAlert(msg) THEN prev + 1 ELSE prev

\* ws.onmessage: the try block run on one message event.  A throw
\* (JSON.parse, data.data of undefined, toLowerCase of a non-string) leaves
\* the catch block, which only logs; what was set before the throw stays set.
OnMessage(raw) ==
    /\ arrivals' = arrivals + 1
    /\ lastMsg' = raw
    /\ IF raw.json = "bad" \/ raw.type # "new_log" \/ ~raw.hasData \/ ~mounted
       THEN UNCHANGED <<eventLog, alerts, appended>>
       ELSE /\ eventLog' = PrependLog(LogEntry(raw), eventLog)
            /\ appended' = Append(appended, LogEntry(raw))
            /\ alerts' = IF raw.message.tag = "string"
                         THEN AlertsAfter(alerts, raw.message)
                         ELSE alerts

----------------------------------------------------------------------------
(* DashboardPage: channel lifecycle *)

CamLists == {<<>>, <<"cam1">>}

\* The socket the WebSocket effect currently owns (0: none)
OwnedWs == IF mounted /\ monitoringEnabled THEN Len(sockets) ELSE 0

\* A close() that has no effect on a socket that is not open yet
CloseWs_OnlyOpen(st) == IF st = "open" THEN "closing" ELSE st

\* ws.close(): a socket that is connecting or open starts closing; its close
\* event is dispatched later.
CloseWs(st) == IF st \in {"connecting", "open"} THEN "closing" ELSE st

\* setSocketStatus(v): a state update of an unmounted component is dropped.
SetStatus(v) == socketStatus' = IF mounted THEN v ELSE socketStatus

\* ws.onopen
WsOpen(s) ==
    /\ sockets[s] = "connecting"
    /\ sockets' = [sockets EXCEPT ![s] = "open"]
    /\ SetStatus("connected")
    /\ UNCHANGED <<mockVars, feedVars, pageVars>>
    /\ UNCHANGED <<mounted, monitoringEnabled, eventLog, alerts, cameras,
                   camFetches, pollPending, fetchedEntries, logsFetch,
                   arrivals, lastMsg, appended>>

\* The connection attempt fails: error and close events; ws.onerror and
\* ws.onclose both set 'disconnected'.
WsRefused(s) ==
    /\ sockets[s] = "connecting"
    /\ sockets' = [sockets EXCEPT ![s] = "closed"]
    /\ SetStatus("disconnected")
    /\ UNCHANGED <<mockVars, feedVars, pageVars>>
    /\ UNCHANGED <<mounted, monitoringEnabled, eventLog, alerts, cameras,
                   camFetches, pollPending, fetchedEntries, logsFetch,
                   arrivals, lastMsg, appended>>

\* The open connection is lost: ws.onerror / ws.onclose
WsDropped(s) ==
    /\ sockets[s] = "open"
    /\ sockets' = [sockets EXCEPT ![s] = "closed"]
    /\ SetStatus("disconnected")
    /\ UNCHANGED <<mockVars, feedVars, pageVars>>
    /\ UNCHANGED <<mounted, monitoringEnabled, eventLog, alerts, cameras,
                   camFetches, pollPending, fetchedEntries, logsFetch,
                   arrivals, lastMsg, appended>>

\* The close event of a socket closed by the effect cleanup: ws.onclose is
\* still attached.
WsClosed(s) ==
    /\ sockets[s] = "closing"
    /\ sockets' = [sockets EXCEPT ![s] = "closed"]
    /\ SetStatus("disconnected")
    /\ UNCHANGED <<mockVars, feedVars, pageVars>>
    /\ UNCHANGED <<mounted, monitoringEnabled, eventLog, alerts, cameras,
                   camFetches, pollPending, fetchedEntries, logsFetch,
                   arrivals, lastMsg, appended>>

\* A message event on an open socket
WsMessage(s, raw) ==
    /\ sockets[s] = "open"
    /\ OnMessage(raw)
    /\ UNCHANGED <<mockVars, feedVars, pageVars>>
    /\ UNCHANGED <<mounted, monitoringEnabled, socketStatus, cameras, sockets,
                   camFetches, pollPending, fetchedEntries, logsFetch>>

\* handleToggleMonitoring, and the WebSocket effect re-run it causes
\* (cleanup of the old effect, then the new effect body).
ToggleMonitoring ==
    /\ mounted
    /\ monitoringEnabled \/ Len(sockets) < MaxSockets
    /\ monitoringEnabled' = ~monitoringEnabled
    /\ IF monitoringEnabled
       THEN /\ socketStatus' = "disconnected"
            /\ sockets' = [sockets EXCEPT ![Len(sockets)] = CloseWs(@)]
       ELSE /\ socketStatus' = "connecting"
            /\ sockets' = Append(sockets, "connecting")
    /\ UNCHANGED <<mockVars, feedVars, pageVars>>
    /\ UNCHANGED <<mounted, eventLog, alerts, cameras, camFetches, pollPending,
                   fetchedEntries, logsFetch, arrivals, lastMsg, appended>>

\* "Refresh Feeds": fetchCameras() is called again
RefreshCameras ==
    /\ mounted
    /\ camFetches < MaxRefresh
    /\ camFetches' = camFetches + 1
    /\ UNCHANGED <<mockVars, feedVars, pageVars>>
    /\ UNCHANGED <<mounted, monitoringEnabled, socketStatus, eventLog, alerts,
                   cameras, sockets, pollPending, fetchedEntries, logsFetch,
                   arrivals, lastMsg, appended>>

\* fetchCameras: the response is ok
FetchCamerasOk(cs) ==
    /\ camFetches > 0
    /\ camFetches' = camFetches - 1
    /\ cameras' = IF mounted THEN cs ELSE cameras
    /\ UNCHANGED <<mockVars, feedVars, pageVars>>
    /\ UNCHANGED <<mounted, monitoringEnabled, socketStatus, eventLog, alerts,
                   sockets, pollPending, fetchedEntries, logsFetch,
                   arrivals, lastMsg, appended>>

\* fetchCameras: the catch block
FetchCamerasFail ==
    /\ camFetches > 0
    /\ camFetches' = camFetches - 1
    /\ SetStatus("disconnected")
    /\ UNCHANGED <<mockVars, feedVars, pageVars>>
    /\ UNCHANGED <<mounted, monitoringEnabled, eventLog, alerts, cameras,
                   sockets, pollPending, fetchedEntries, logsFetch,
                   arrivals, lastMsg, appended>>

\* setInterval(fetchAlertsCount, 30000)
AlertsPollTick ==
    /\ mounted
    /\ ~pollPending
    /\ pollPending' = TRUE
    /\ UNCHANGED <<mockVars, feedVars, pageVars>>
    /\ UNCHANGED <<mounted, monitoringEnabled, socketStatus, eventLog, alerts,
                   cameras, sockets, camFetches, fetchedEntries, logsFetch,
                   arrivals, lastMsg, appended>>

\* fetchAlertsCount: setAlerts(data.count)
AlertsPollOk(count) ==
    /\ pollPending
    /\ pollPending' = FALSE
    /\ alerts' = IF mounted THEN count ELSE alerts
    /\ UNCHANGED <<mockVars, feedVars, pageVars>>
    /\ UNCHANGED <<mounted, monitoringEnabled, socketStatus, eventLog,
                   cameras, sockets, camFetches, fetchedEntries, logsFetch,
                   arrivals, lastMsg, appended>>

\* fetchAlertsCount: the catch block
AlertsPollFail ==
    /\ pollPending
    /\ pollPending' = FALSE
    /\ UNCHANGED <<mockVars, feedVars, pageVars>>
    /\ UNCHANGED <<mounted, monitoringEnabled, socketStatus, eventLog, alerts,
                   cameras, sockets, camFetches, fetchedEntries, logsFetch,
                   arrivals, lastMsg, appended>>

\* The page unmounts: the effect cleanups run (ws.close(), clearInterval).
Unmount ==
    /\ mounted
    /\ mounted' = FALSE
    /\ sockets' = IF monitoringEnabled
                  THEN [sockets EXCEPT ![Len(sockets)] = CloseWs(@)]
                  ELSE sockets
    /\ UNCHANGED <<mockVars, feedVars, pageVars>>
    /\ UNCHANGED <<monitoringEnabled, socketStatus, eventLog, alerts, cameras,
                   camFetches, pollPending, fetchedEntries, logsFetch,
                   arrivals, lastMsg, appended>>

----------------------------------------------------------------------------
(* EventLog: the historical fetch and the merged list *)

\* new Date(log.timestamp).toLocaleTimeString(...): the time of day
toLocaleTimeString(ts) == ts % DayLen

\* The i-th newest log of the server's history (timestamps in seconds)
HistoryLog(i) == [timestamp |-> 2 * DayLen - i, camera |-> "cam1",
                  message |-> Str(MsgLeft)]

\* logs.map(log => ({timestamp: ..., camera: log.camera, message: log.message}))
MapLogs(logs) ==
    [i \in 1..Len(logs) |->
        [timestamp |-> toLocaleTimeString(logs[i].timestamp),
         camera |-> logs[i].camera, message |-> logs[i].message]]

\* fetchLogs: the response is ok and carries n logs (n <= limit)
FetchLogsOk(n) ==
    /\ logsFetch = "pending"
    /\ logsFetch' = "done"
    /\ fetchedEntries' = IF mounted THEN MapLogs([i \in 1..n |-> HistoryLog(i)])
                         ELSE fetchedEntries
    /\ UNCHANGED <<mockVars, feedVars, pageVars>>
    /\ UNCHANGED <<mounted, monitoringEnabled, socketStatus, eventLog, alerts,
                   cameras, sockets, camFetches, pollPending,
                   arrivals, lastMsg, appended>>

\* fetchLogs: the catch block
FetchLogsFail ==
    /\ logsFetch = "pending"
    /\ logsFetch' = "failed"
    /\ UNCHANGED <<mockVars, feedVars, pageVars>>
    /\ UNCHANGED <<mounted, monitoringEnabled, socketStatus, eventLog, alerts,
                   cameras, sockets, camFetches, pollPending, fetchedEntries,
                   arrivals, lastMsg, appended>>

\* const allEntries = [...entries, ...fetchedEntries]
allEntries == eventLog \o fetchedEntries

----------------------------------------------------------------------------
(* useMockWebSocket *)

\* The components that may call the hook, and the one that does in the
\* single-instance specifications
Instances == {1, 2}
Hooks == {1}

\* The cameras prop of the hook
Cams == <<"cam1", "cam2">>
CamIds == {Cams[i] : i \in 1..Len(Cams)}

\* Lengths are in quarters of a percent of the frame.
FrameSize   == 400   \* 100 %
MaxPerCam   == 5     \* currentObjects.length < 5
PadWidth    == 3     \* padStart(3, '0')

Range(s) == {s[i] : i \in 1..Len(s)}
Max(a, b) == IF a > b THEN a ELSE b
Min(a, b) == IF a < b THEN a ELSE b

\* (Math.random() - 0.5) * 1.5 and (Math.random() - 0.5) * 1.0,
\* in [-0.75, 0.75) and [-0.5, 0.5): the extreme draws
Moves == {<<-3, -2>>, <<2, 1>>}

\* [random*70, random*60, 15 + random*10, 30 + random*15]: draws at the
\* low and at the high end of each range
NewBoxes == {<<0, 0, 60, 120>>, <<279, 239, 99, 179>>}

ConfKnown == {98}   \* 97 + Math.random() * 2
ConfNew   == {95}   \* 94 + Math.random() * 3

\* A clamp without its upper limit
Clamp_NoUpper(v, extent) == Max(0, v)

\* Math.max(0, Math.min(100 - extent, v))
Clamp(v, extent) == Max(0, Min(FrameSize - extent, v))

\* One object moved by d = <<dx, dy>> and clamped
MoveObj(o, d) ==
    [o EXCEPT !.bbox = <<Clamp(@[1] + d[1], @[3]), Clamp(@[2] + d[2], @[4]),
                         @[3], @[4]>>]

\* currentObjects.forEach(obj => ...), mv giving each object's draw
MoveAll(cur, mv) ==
    [i \in DOMAIN objs |-> IF i \in Range(cur) THEN MoveObj(objs[i], mv[i])
                           ELSE objs[i]]

\* String(n): the decimal digits of n
RECURSIVE Digits(_)
Digits(n) == IF n < 10 THEN <<n>> ELSE Append(Digits(n \div 10), n % 10)

\* s.padStart(w, '0')
PadStart(s, w) == [i \in 1..(w - Len(s)) |-> 0] \o s

\* `User-${String(personCounter).padStart(3, '0')}`
UserId(n) == <<"User-">> \o PadStart(Digits(n), PadWidth)

\* The KnownPerson pushed for a new individual
NewPerson(n, loyal) ==
    [personId |-> UserId(n), name |-> UserId(n), isLoyalMember |-> loyal]

\* objToIdentify.type = 'identified'; .name = ...; .personId = ...; ...
Identify(o, person, conf) ==
    [id |-> o.id, type |-> "identified", bbox |-> o.bbox,
     name |-> person.name, personId |-> person.personId,
     isLoyalMember |-> person.isLoyalMember, confidence |-> conf]

\* A new object that already carries a display name
NewObj_Named(id, box) ==
    [id |-> id, type |-> "tracking", bbox |-> box, name |-> "Human"]

\* const newObj: TrackedObject = { id: newId, type: 'tracking', bbox: [...] }
NewObj(id, box) == [id |-> id, type |-> "tracking", bbox |-> box]

\* currentObjects.filter(o => o.type === 'tracking')
TrackingOf(cur, os) == SelectSeq(cur, LAMBDA i : os[i].type = "tracking")

\* A departure message that never names the object
LeftMessage_Generic(o) == <<"Human left the view.">>

\* The departure message of a removed object
LeftMessage(o) ==
    IF o.type = "identified" THEN <<o.name, " left the view.">>
    ELSE <<"Human left the view.">>

Entry(cam, message) == [camera |-> cam, message |-> message]

\* An identification as the identified object o shows it: returning tells
\* the branch taken (isKnownPerson)
IdEvent(o, returning) ==
    [id |-> o.id, personId |-> o.personId, name |-> o.name,
     isLoyalMember |-> o.isLoyalMember, returning |-> returning]

NoCalls == [kind |-> "none", hook |-> 0, cam |-> "",
            statuses |-> <<>>, logs |-> <<>>, tracking |-> <<>>]

\* The objects as the receiver of a snapshot sees them: the array is a copy
\* ([...currentObjects]), the objects in it are shared with the hook.
Shown(h, cam) == [i \in 1..Len(cTracked[h][cam]) |-> objs[cTracked[h][cam][i]]]

\* The interval fires while connectTimeout (1500 ms) is pending only once
\* (at 1000 ms).
CanTick(h) ==
    /\ hookMounted[h]
    /\ ticks < MaxTicks
    /\ connectPending[h] => ~firstTick[h]

\* The end of the interval callback: the state is written back and
\* onTrackingUpdate({ cameraId, objects: [...currentObjects] }) is called.
TickEnd(h, cam, os, cur, logs) ==
    /\ objs' = os
    /\ liveObjects' = [liveObjects EXCEPT ![h][cam] = cur]
    /\ cTracked' = [cTracked EXCEPT ![h][cam] = cur]
    /\ out' = [kind |-> "tick", hook |-> h, cam |-> cam, statuses |-> <<>>,
               logs |-> logs,
               tracking |-> <<[cameraId |-> cam, objects |-> cur]>>]
    /\ ticks' = ticks + 1
    /\ firstTick' = [firstTick EXCEPT ![h] = TRUE]
    /\ cam \in Range(hookCams[h])
    /\ UNCHANGED <<hookMounted, hookCams, connectPending, reconnectTimers, cStatus>>
    /\ UNCHANGED <<dashVars, feedVars, pageVars>>

\* currentObjects after the removal step (remove: Math.random() < 0.05)
AfterRemove(cur, remove) == IF remove /\ Len(cur) > 0 THEN Tail(cur) ELSE cur

RemoveLogs(cam, cur, os, remove) ==
    IF remove /\ Len(cur) > 0 THEN <<Entry(cam, LeftMessage(os[Head(cur)]))>>
    ELSE <<>>

\* A tick that identifies nobody and adds nothing
TickMove(h, cam, mv, remove) ==
    /\ CanTick(h)
    /\ LET cur0 == liveObjects[h][cam]
           os1  == MoveAll(cur0, mv)
       IN  /\ TickEnd(h, cam, os1, AfterRemove(cur0, remove),
                      RemoveLogs(cam, cur0, os1, remove))
           /\ UNCHANGED <<personCounter, knownPeople, mintLog, idEvents>>

\* A recognition that does not copy the person's loyalty flag
TickIdentifyKnown_NoLoyalty(h, cam, mv, remove, o, k, conf) ==
    /\ CanTick(h)
    /\ LET cur0 == liveObjects[h][cam]
           os1  == MoveAll(cur0, mv)
           cur1 == AfterRemove(cur0, remove)
           person == [knownPeople[k] EXCEPT !.isLoyalMember = FALSE]
           os2  == [os1 EXCEPT ![o] = Identify(@, person, conf)]
       IN  /\ o \in Range(TrackingOf(cur1, os1))
           /\ TickEnd(h, cam, os2, cur1,
                      RemoveLogs(cam, cur0, os1, remove) \o
                      <<Entry(cam, <<"Recognized returning customer: ",
                                     os2[o].name, ".">>)>>)
           /\ idEvents' = Append(idEvents, IdEvent(os2[o], TRUE))
           /\ UNCHANGED <<personCounter, knownPeople, mintLog>>

\* A recognition that remembers the returning person once more
TickIdentifyKnown_Remembers(h, cam, mv, remove, o, k, conf) ==
    /\ CanTick(h)
    /\ LET cur0 == liveObjects[h][cam]
           os1  == MoveAll(cur0, mv)
           cur1 == AfterRemove(cur0, remove)
           person == knownPeople[k]
           os2  == [os1 EXCEPT ![o] = Identify(@, person, conf)]
       IN  /\ o \in Range(TrackingOf(cur1, os1))
           /\ TickEnd(h, cam, os2, cur1,
                      RemoveLogs(cam, cur0, os1, remove) \o
                      <<Entry(cam, <<"Recognized returning customer: ",
                                     os2[o].name, ".">>)>>)
           /\ idEvents' = Append(idEvents, IdEvent(os2[o], TRUE))
           /\ knownPeople' = Append(knownPeople, person)
           /\ UNCHANGED <<personCounter, mintLog>>

\* A tick that recognizes a returning person (knownPeople[k]) in object o
TickIdentifyKnown(h, cam, mv, remove, o, k, conf) ==
    /\ CanTick(h)
    /\ LET cur0 == liveObjects[h][cam]
           os1  == MoveAll(cur0, mv)
           cur1 == AfterRemove(cur0, remove)
           person == knownPeople[k]
           os2  == [os1 EXCEPT ![o] = Identify(@, person, conf)]
       IN  /\ o \in Range(TrackingOf(cur1, os1))
           /\ TickEnd(h, cam, os2, cur1,
                      RemoveLogs(cam, cur0, os1, remove) \o
                      <<Entry(cam, <<"Recognized returning customer: ",
                                     os2[o].name, ".">>)>>)
           /\ idEvents' = Append(idEvents, IdEvent(os2[o], TRUE))
           /\ UNCHANGED <<personCounter, knownPeople, mintLog>>

\* A tick that identifies object o as a new person and remembers them
TickIdentifyNew(h, cam, mv, remove, o, loyal, conf) ==
    /\ CanTick(h)
    /\ LET cur0 == liveObjects[h][cam]
           os1  == MoveAll(cur0, mv)
           cur1 == AfterRemove(cur0, remove)
           person == NewPerson(personCounter + 1, loyal)
           os2  == [os1 EXCEPT ![o] = Identify(@, person, conf)]
       IN  /\ o \in Range(TrackingOf(cur1, os1))
           /\ personCounter' = personCounter + 1
           /\ knownPeople' = Append(knownPeople, person)
           /\ mintLog' = Append(mintLog, person)
           /\ idEvents' = Append(idEvents, IdEvent(os2[o], FALSE))
           /\ TickEnd(h, cam, os2, cur1,
                      RemoveLogs(cam, cur0, os1, remove) \o
                      <<Entry(cam, <<"New user identified: ", os2[o].name,
                                     ". Facial vector saved.">>)>>)

\* A tick that adds a new object (the else-if branch)
TickAdd(h, cam, mv, remove, box) ==
    /\ CanTick(h)
    /\ Len(objs) < MaxSessions
    /\ LET cur0 == liveObjects[h][cam]
           os1  == MoveAll(cur0, mv)
           cur1 == AfterRemove(cur0, remove)
           id   == Len(objs) + 1
       IN  /\ Len(cur1) < MaxPerCam
           /\ TickEnd(h, cam, Append(os1, NewObj(id, box)), Append(cur1, id),
                      RemoveLogs(cam, cur0, os1, remove) \o
                      <<Entry(cam, <<"Human detected.">>)>>)
           /\ UNCHANGED <<personCounter, knownPeople, mintLog, idEvents>>

\* The interval callback of a hook mounted with no camera:
\* cameras[Math.floor(Math.random() * 0)] is undefined and camToUpdate.id
\* throws a TypeError out of the callback; nothing is assigned or called.
TickThrow(h) ==
    /\ CanTick(h)
    /\ hookCams[h] = <<>>
    /\ out' = [NoCalls EXCEPT !.kind = "throw", !.hook = h]
    /\ ticks' = ticks + 1
    /\ firstTick' = [firstTick EXCEPT ![h] = TRUE]
    /\ UNCHANGED <<personCounter, knownPeople, hookMounted, hookCams,
                   liveObjects, objs, connectPending, reconnectTimers,
                   cStatus, cTracked, mintLog, idEvents>>
    /\ UNCHANGED <<dashVars, feedVars, pageVars>>

\* connectTimeout fires (1500 ms after the effect ran)
ConnectFire(h) ==
    /\ connectPending[h]
    /\ firstTick[h]
    /\ connectPending' = [connectPending EXCEPT ![h] = FALSE]
    /\ cStatus' = [cStatus EXCEPT ![h] = "connected"]
    /\ out' = [NoCalls EXCEPT !.kind = "connect", !.hook = h,
                 !.statuses = <<"connected">>,
                 !.logs = <<Entry("SYSTEM", <<"WebSocket connection established.">>)>>]
    /\ UNCHANGED <<personCounter, knownPeople, hookMounted, hookCams,
                   liveObjects, objs,
                   firstTick, reconnectTimers, cTracked, mintLog, idEvents, ticks>>
    /\ UNCHANGED <<dashVars, feedVars, pageVars>>

\* The disconnectTimeout interval fires (every 60 s): the earlier inner
\* timer (3 s) has fired by then.
DisconnectFire(h) ==
    /\ hookMounted[h]
    /\ ~connectPending[h]
    /\ reconnectTimers[h] = 0
    /\ reconnectTimers' = [reconnectTimers EXCEPT ![h] = @ + 1]
    /\ cStatus' = [cStatus EXCEPT ![h] = "disconnected"]
    /\ out' = [NoCalls EXCEPT !.kind = "disconnect", !.hook = h,
                 !.statuses = <<"disconnected">>,
                 !.logs = <<Entry("SYSTEM", <<"Connection lost. Reconnecting...">>)>>]
    /\ UNCHANGED <<personCounter, knownPeople, hookMounted, hookCams,
                   liveObjects, objs,
                   connectPending, firstTick, cTracked, mintLog, idEvents, ticks>>
    /\ UNCHANGED <<dashVars, feedVars, pageVars>>

\* A reconnect that also forgets what the cameras show
ReconnectFire_Resets(h) ==
    /\ reconnectTimers[h] > 0
    /\ reconnectTimers' = [reconnectTimers EXCEPT ![h] = @ - 1]
    /\ cStatus' = [cStatus EXCEPT ![h] = "connected"]
    /\ cTracked' = [cTracked EXCEPT ![h] = [c \in CamIds |-> <<>>]]
    /\ out' = [NoCalls EXCEPT !.kind = "reconnect", !.hook = h,
                 !.statuses = <<"connected">>,
                 !.logs = <<Entry("SYSTEM", <<"Reconnected successfully.">>)>>]
    /\ UNCHANGED <<personCounter, knownPeople, hookMounted, hookCams,
                   liveObjects, objs,
                   connectPending, firstTick, mintLog, idEvents, ticks>>
    /\ UNCHANGED <<dashVars, feedVars, pageVars>>

\* The inner setTimeout fires, 3 s after the disconnect; no cleanup clears it.
ReconnectFire(h) ==
    /\ reconnectTimers[h] > 0
    /\ reconnectTimers' = [reconnectTimers EXCEPT ![h] = @ - 1]
    /\ cStatus' = [cStatus EXCEPT ![h] = "connected"]
    /\ out' = [NoCalls EXCEPT !.kind = "reconnect", !.hook = h,
                 !.statuses = <<"connected">>,
                 !.logs = <<Entry("SYSTEM", <<"Reconnected successfully.">>)>>]
    /\ UNCHANGED <<personCounter, knownPeople, hookMounted, hookCams,
                   liveObjects, objs,
                   connectPending, firstTick, cTracked, mintLog, idEvents, ticks>>
    /\ UNCHANGED <<dashVars, feedVars, pageVars>>

\* The effect's cleanup
Cleanup(h) ==
    /\ hookMounted[h]
    /\ hookMounted' = [hookMounted EXCEPT ![h] = FALSE]
    /\ connectPending' = [connectPending EXCEPT ![h] = FALSE]
    /\ knownPeople' = <<>>
    /\ personCounter' = 0
    /\ out' = [NoCalls EXCEPT !.kind = "cleanup", !.hook = h]
    /\ idEvents' = <<>>
    /\ UNCHANGED <<hookCams, liveObjects, objs, firstTick, reconnectTimers, cStatus,
                   cTracked, mintLog, ticks>>
    /\ UNCHANGED <<dashVars, feedVars, pageVars>>

\* The effect runs again (hot reload, or a re-mount)
Mount(h) ==
    /\ ~hookMounted[h]
    /\ hookMounted' = [hookMounted EXCEPT ![h] = TRUE]
    /\ liveObjects' = [liveObjects EXCEPT ![h] = [c \in Range(hookCams[h]) |-> <<>>]]
    /\ connectPending' = [connectPending EXCEPT ![h] = TRUE]
    /\ firstTick' = [firstTick EXCEPT ![h] = FALSE]
    /\ out' = [NoCalls EXCEPT !.kind = "mount", !.hook = h]
    /\ UNCHANGED <<personCounter, knownPeople, hookCams, objs, reconnectTimers, cStatus,
                   cTracked, mintLog, idEvents, ticks>>
    /\ UNCHANGED <<dashVars, feedVars, pageVars>>

\* The module state, and the first run of the effect in component 1 with
\* the camera list cs
InitMockWith(cs) ==
    /\ personCounter = 0
    /\ knownPeople = <<>>
    /\ hookMounted = [h \in Instances |-> h = 1]
    /\ hookCams = [h \in Instances |-> cs]
    /\ liveObjects = [h \in Instances |-> [c \in Range(cs) |-> <<>>]]
    /\ objs = <<>>
    /\ connectPending = [h \in Instances |-> h = 1]
    /\ firstTick = [h \in Instances |-> FALSE]
    /\ reconnectTimers = [h \in Instances |-> 0]
    /\ cStatus = [h \in Instances |-> "connecting"]
    /\ cTracked = [h \in Instances |-> [c \in CamIds |-> <<>>]]
    /\ out = NoCalls
    /\ mintLog = <<>>
    /\ idEvents = <<>>
    /\ ticks = 0

InitMock == InitMockWith(Cams)

\* The draws of one tick for the objects of a camera, from the set ms
MoveDraws(h, cam, ms) == [Range(liveObjects[h][cam]) -> ms]

\* The whole life of the simulated channel; every object drifts by the
\* same draw.
Drift == {<<2, 1>>}

NextMock ==
    \/ \E h \in Hooks, cam \in CamIds : \E mv \in MoveDraws(h, cam, Drift) :
         \E remove \in BOOLEAN : TickMove(h, cam, mv, remove)
    \/ \E h \in Hooks, cam \in CamIds : \E mv \in MoveDraws(h, cam, Drift) :
         \E remove \in BOOLEAN, o \in DOMAIN objs, k \in DOMAIN knownPeople,
            conf \in ConfKnown :
              TickIdentifyKnown(h, cam, mv, remove, o, k, conf)
    \/ \E h \in Hooks, cam \in CamIds : \E mv \in MoveDraws(h, cam, Drift) :
         \E remove \in BOOLEAN, o \in DOMAIN objs, loyal \in BOOLEAN,
            conf \in ConfNew :
              TickIdentifyNew(h, cam, mv, remove, o, loyal, conf)
    \/ \E h \in Hooks, cam \in CamIds : \E mv \in MoveDraws(h, cam, Drift) :
         \E remove \in BOOLEAN, box \in NewBoxes :
              TickAdd(h, cam, mv, remove, box)
    \/ \E h \in Hooks : ConnectFire(h)
    \/ \E h \in Hooks : DisconnectFire(h)
    \/ \E h \in Hooks : ReconnectFire(h)
    \/ \E h \in Hooks : Cleanup(h)
    \/ \E h \in Hooks : Mount(h)

\* The hook mounted with any camera list the page can hand it
\* (INITIAL_CAMERAS is the empty list)
MountLists == {<<>>, Cams}

NextAnyCams ==
    \/ \E h \in Hooks : \E cam \in Range(hookCams[h]) :
         \E mv \in [Range(liveObjects[h][cam]) -> Drift] :
           \E remove \in BOOLEAN : TickMove(h, cam, mv, remove)
    \/ \E h \in Hooks : \E cam \in Range(hookCams[h]) :
         \E mv \in [Range(liveObjects[h][cam]) -> Drift] :
           \E remove \in BOOLEAN, box \in NewBoxes :
              TickAdd(h, cam, mv, remove, box)
    \/ \E h \in Hooks : TickThrow(h)
    \/ \E h \in Hooks : ConnectFire(h)
    \/ \E h \in Hooks : Cleanup(h)
    \/ \E h \in Hooks : Mount(h)

\* Two components calling the hook: they share personCounter and knownPeople
NextShared ==
    \/ \E h \in Instances, cam \in CamIds : \E mv \in MoveDraws(h, cam, Drift) :
         \E box \in NewBoxes : TickAdd(h, cam, mv, FALSE, box)
    \/ \E h \in Instances, cam \in CamIds : \E mv \in MoveDraws(h, cam, Drift) :
         \E o \in DOMAIN objs, loyal \in BOOLEAN, conf \in ConfNew :
              TickIdentifyNew(h, cam, mv, FALSE, o, loyal, conf)
    \/ \E h \in Instances, cam \in CamIds : \E mv \in MoveDraws(h, cam, Drift) :
         \E o \in DOMAIN objs, k \in DOMAIN knownPeople, conf \in ConfKnown :
              TickIdentifyKnown(h, cam, mv, FALSE, o, k, conf)
    \/ \E h \in Instances : ConnectFire(h)
    \/ \E h \in Instances : Cleanup(h)
    \/ \E h \in Instances : Mount(h)

\* Objects appearing, moving by the extreme draws, and leaving
NextMotion ==
    \/ \E h \in Hooks, cam \in CamIds : \E mv \in MoveDraws(h, cam, Moves) :
         \E remove \in BOOLEAN : TickMove(h, cam, mv, remove)
    \/ \E h \in Hooks, cam \in CamIds : \E mv \in MoveDraws(h, cam, Moves) :
         \E remove \in BOOLEAN, box \in NewBoxes :
              TickAdd(h, cam, mv, remove, box)
    \/ \E h \in Hooks : ConnectFire(h)

----------------------------------------------------------------------------
(* CameraFeed: one instance per camera of the list, keyed by camera.id *)

\* A camera id no feed shows
StrayCam == "cam9"

\* A wire object of a tracking update
Wire(id, type, conf, user) ==
    [object_id |-> id, object_type |-> type, bbox |-> <<40, 40, 80, 160>>,
     confidence |-> conf, user_id |-> user]

\* The object lists a snapshot may carry
WireLists ==
    { <<>>,
      <<Wire("o1", "person", 90, "null")>>,
      <<Wire("o1", "face", 90, "u1"), Wire("o2", "person", 0, "u2")>> }

\* The object lists the response of the initial fetch may carry
FetchLists == { <<Wire("o1", "person", 90, "null")>> }

\* event.data of a message event of the tracking channel
TrackingUpdate(cam, hasObjects, objects) ==
    [json |-> "ok", type |-> "tracking_update", camera_id |-> cam,
     hasObjects |-> hasObjects, objects |-> objects]
BadTrackingJson ==
    [json |-> "bad", type |-> "", camera_id |-> "", hasObjects |-> FALSE,
     objects |-> <<>>]

\* The latest event of the camera tiles: its kind, the tile it happened in,
\* the event.data of a message event, and whether that message event carries
\* the same data as the event just before it in the same tile.
FeedStep(kind, f, raw, repeat) ==
    [kind |-> kind, feed |-> f, raw |-> raw, repeat |-> repeat]
NoFeedStep == FeedStep("none", "", BadTrackingJson, FALSE)

\* The TrackedObject handed to OverlayBox for a wire object
Overlay(obj) ==
    IF obj.object_type = "person"
    THEN [id |-> obj.object_id, type |-> "tracking", bbox |-> obj.bbox,
          confidence |-> obj.confidence, isLoyalMember |-> FALSE]
    ELSE [id |-> obj.object_id, type |-> "identified", bbox |-> obj.bbox,
          confidence |-> obj.confidence, name |-> obj.object_id,
          personId |-> obj.object_id, isLoyalMember |-> FALSE]

\* trackedObjects.map(obj => <OverlayBox ... />)
Overlays(list) == [i \in 1..Len(list) |-> Overlay(list[i])]

\* OverlayBox: what is drawn for a TrackedObject.  {confidence && (...)}
\* draws the figure when confidence is truthy, and the text 0 when it is 0.
OverlayBox(t) ==
    [borderStyle |-> IF t.type = "identified" THEN "border-solid"
                     ELSE "border-dashed",
     label       |-> IF t.type = "identified" THEN t.name ELSE "Human",
     star        |-> t.type = "identified" /\ t.isLoyalMember,
     figure      |-> "confidence" \in DOMAIN t /\ t.confidence # 0,
     percent     |-> IF "confidence" \in DOMAIN t THEN t.confidence * 100 ELSE 0]

\* The object ids a list presents as 'identified', and as 'tracking'
IdentifiedIn(list) ==
    {list[i].object_id :
        i \in {j \in 1..Len(list) : Overlay(list[j]).type = "identified"}}
TrackingIn(list) ==
    {list[i].object_id :
        i \in {j \in 1..Len(list) : Overlay(list[j]).type = "tracking"}}

\* A setter that adds the snapshot to the list instead of replacing the list
SetTracked_Appends(f, list) ==
    /\ trackedObjects' = [trackedObjects EXCEPT ![f] = @ \o list]
    /\ everIdentified' = [everIdentified EXCEPT ![f] = @ \cup IdentifiedIn(list)]

\* setTrackedObjects(list) in the feed of camera f
SetTracked(f, list) ==
    /\ trackedObjects' = [trackedObjects EXCEPT ![f] = list]
    /\ everIdentified' = [everIdentified EXCEPT ![f] = @ \cup IdentifiedIn(list)]

\* ws.onopen of the tracking socket
FeedWsOpen(f) ==
    /\ feedSocket[f] = "connecting"
    /\ feedSocket' = [feedSocket EXCEPT ![f] = "open"]
    /\ feedStep' = FeedStep("open", f, BadTrackingJson, FALSE)
    /\ UNCHANGED <<trackedObjects, trackFetch, feedError, everIdentified,
                   fetchBody, newest>>
    /\ UNCHANGED <<dashVars, mockVars, pageVars>>

\* ws.onerror / ws.onclose of the tracking socket: logged only
FeedWsClosed(f) ==
    /\ feedSocket[f] \in {"connecting", "open"}
    /\ feedSocket' = [feedSocket EXCEPT ![f] = "closed"]
    /\ feedStep' = FeedStep("close", f, BadTrackingJson, FALSE)
    /\ UNCHANGED <<trackedObjects, trackFetch, feedError, everIdentified,
                   fetchBody, newest>>
    /\ UNCHANGED <<dashVars, mockVars, pageVars>>

\* A handler that applies every tracking update, whichever camera it names
FeedMessage_NoCameraCheck(f, raw) ==
    /\ feedSocket[f] = "open"
    /\ IF raw.json = "ok" /\ raw.type = "tracking_update"
       THEN /\ SetTracked(f, IF raw.hasObjects THEN raw.objects ELSE <<>>)
            /\ newest' = [newest EXCEPT
                            ![f] = IF raw.hasObjects THEN raw.objects ELSE <<>>]
       ELSE UNCHANGED <<trackedObjects, everIdentified, newest>>
    /\ feedStep' = FeedStep("message", f, raw,
                            feedStep = FeedStep("message", f, raw, FALSE)
                              \/ feedStep = FeedStep("message", f, raw, TRUE))
    /\ UNCHANGED <<feedSocket, trackFetch, feedError, fetchBody>>
    /\ UNCHANGED <<dashVars, mockVars, pageVars>>

\* ws.onmessage of the tracking socket; data.objects || []
FeedMessage(f, raw) ==
    /\ feedSocket[f] = "open"
    /\ IF raw.json = "ok" /\ raw.type = "tracking_update" /\ raw.camera_id = f
       THEN /\ SetTracked(f, IF raw.hasObjects THEN raw.objects ELSE <<>>)
            /\ newest' = [newest EXCEPT
                            ![f] = IF raw.hasObjects THEN raw.objects ELSE <<>>]
       ELSE UNCHANGED <<trackedObjects, everIdentified, newest>>
    /\ feedStep' = FeedStep("message", f, raw,
                            feedStep = FeedStep("message", f, raw, FALSE)
                              \/ feedStep = FeedStep("message", f, raw, TRUE))
    /\ UNCHANGED <<feedSocket, trackFetch, feedError, fetchBody>>
    /\ UNCHANGED <<dashVars, mockVars, pageVars>>

\* The server answers GET /cameras/{id}/tracking with the camera's objects
\* of that moment; the response is on its way to fetchTrackingData.
FeedFetchResponded(f, hasObjects, list) ==
    /\ trackFetch[f] = "pending"
    /\ trackFetch' = [trackFetch EXCEPT ![f] = "responded"]
    /\ fetchBody' = [fetchBody EXCEPT ![f] = IF hasObjects THEN list ELSE <<>>]
    /\ newest' = [newest EXCEPT ![f] = IF hasObjects THEN list ELSE <<>>]
    /\ feedStep' = FeedStep("responded", f, BadTrackingJson, FALSE)
    /\ UNCHANGED <<trackedObjects, feedSocket, feedError, everIdentified>>
    /\ UNCHANGED <<dashVars, mockVars, pageVars>>

\* fetchTrackingData: the response is ok; data.tracked_objects || []
FeedFetchOk(f) ==
    /\ trackFetch[f] = "responded"
    /\ trackFetch' = [trackFetch EXCEPT ![f] = "done"]
    /\ SetTracked(f, fetchBody[f])
    /\ feedStep' = FeedStep("fetched", f, BadTrackingJson, FALSE)
    /\ UNCHANGED <<feedSocket, feedError, fetchBody, newest>>
    /\ UNCHANGED <<dashVars, mockVars, pageVars>>

\* fetchTrackingData: the catch block
FeedFetchFail(f) ==
    /\ trackFetch[f] = "pending"
    /\ trackFetch' = [trackFetch EXCEPT ![f] = "failed"]
    /\ feedError' = [feedError EXCEPT
                       ![f] = "Could not fetch tracking data from edge-processor."]
    /\ feedStep' = FeedStep("fetch failed", f, BadTrackingJson, FALSE)
    /\ UNCHANGED <<trackedObjects, feedSocket, everIdentified, fetchBody, newest>>
    /\ UNCHANGED <<dashVars, mockVars, pageVars>>

InitFeed ==
    /\ trackedObjects = [f \in CamIds |-> <<>>]
    /\ feedSocket = [f \in CamIds |-> "connecting"]
    /\ trackFetch = [f \in CamIds |-> "pending"]
    /\ feedError = [f \in CamIds |-> "null"]
    /\ everIdentified = [f \in CamIds |-> {}]
    /\ feedStep = NoFeedStep
    /\ fetchBody = [f \in CamIds |-> <<>>]
    /\ newest = [f \in CamIds |-> <<>>]

FeedMsgs ==
    {TrackingUpdate(c, TRUE, l) : c \in CamIds, l \in WireLists}
      \cup {TrackingUpdate(StrayCam, TRUE, l) : l \in FetchLists}
      \cup {TrackingUpdate(c, FALSE, <<>>) : c \in CamIds}
      \cup {BadTrackingJson}

NextFeed ==
    \/ \E f \in CamIds : FeedWsOpen(f)
    \/ \E f \in CamIds : FeedWsClosed(f)
    \/ \E f \in CamIds : \E raw \in FeedMsgs : FeedMessage(f, raw)
    \/ \E f \in CamIds : \E l \in FetchLists : FeedFetchResponded(f, TRUE, l)
    \/ \E f \in CamIds : FeedFetchResponded(f, FALSE, <<>>)
    \/ \E f \in CamIds : FeedFetchOk(f)
    \/ \E f \in CamIds : FeedFetchFail(f)

----------------------------------------------------------------------------
(* Dashboard: the analytics page.  A log is its id; the server numbers its
   logs 1, 2, ... in the order it stores them. *)

\* The n newest of the server's logs, newest first (what getLogs(n) answers)
NewestLogs(n) ==
    [i \in 1..Min(n, serverLogs) |-> serverLogs + 1 - i]

\* The server answers getStats() and getLogs(10); Promise.all has not
\* resumed fetchData yet.
DataResponded ==
    /\ dataFetch = "pending"
    /\ dataFetch' = "responded"
    /\ fetchedLogs' = NewestLogs(PageLimit)
    /\ UNCHANGED <<stats, recentLogs, loading, error, serverLogs, pushed>>
    /\ UNCHANGED <<dashVars, mockVars, feedVars>>

\* fetchData resumes: setStats(statsData); setLogs(logsData); then finally
DataFetchOk ==
    /\ dataFetch = "responded"
    /\ dataFetch' = "done"
    /\ stats' = "fetched"
    /\ recentLogs' = fetchedLogs
    /\ loading' = FALSE
    /\ UNCHANGED <<error, fetchedLogs, serverLogs, pushed>>
    /\ UNCHANGED <<dashVars, mockVars, feedVars>>

\* fetchData: the catch block, then finally
DataFetchFail ==
    /\ dataFetch = "pending"
    /\ dataFetch' = "failed"
    /\ error' = "Failed to load dashboard data"
    /\ loading' = FALSE
    /\ UNCHANGED <<stats, recentLogs, fetchedLogs, serverLogs, pushed>>
    /\ UNCHANGED <<dashVars, mockVars, feedVars>>

\* setLogs(prev => [data.data, ...prev.slice(0, 9)])
LogUpdate(prev, entry) == <<entry>> \o slice0(prev, KeepLogs)

\* The server stores a log and pushes it: the 'message' handler runs with
\* type 'log_update'.
LogUpdateMessage ==
    /\ Len(pushed) < MaxUpdates
    /\ serverLogs' = serverLogs + 1
    /\ pushed' = Append(pushed, serverLogs + 1)
    /\ recentLogs' = LogUpdate(recentLogs, serverLogs + 1)
    /\ UNCHANGED <<stats, loading, error, dataFetch, fetchedLogs>>
    /\ UNCHANGED <<dashVars, mockVars, feedVars>>

\* The 'message' handler runs with type 'stats_update'
StatsUpdateMessage ==
    /\ stats' = "pushed"
    /\ UNCHANGED <<recentLogs, loading, error, dataFetch, fetchedLogs, serverLogs, pushed>>
    /\ UNCHANGED <<dashVars, mockVars, feedVars>>

InitPage ==
    /\ stats = "null"
    /\ recentLogs = <<>>
    /\ loading = TRUE
    /\ error = "null"
    /\ dataFetch = "pending"
    /\ fetchedLogs = <<>>
    /\ serverLogs = StoredLogs
    /\ pushed = <<>>

NextPage ==
    \/ DataResponded
    \/ DataFetchOk
    \/ DataFetchFail
    \/ LogUpdateMessage
    \/ StatsUpdateMessage

----------------------------------------------------------------------------
(* Specifications of the dashboard page *)

InitDash ==
    /\ mounted = TRUE
    /\ monitoringEnabled = TRUE
    /\ socketStatus = "connecting"
    /\ eventLog = <<>>
    /\ alerts = 0
    /\ cameras = <<>>
    /\ sockets = <<"connecting">>
    /\ camFetches = 1
    /\ pollPending = TRUE
    /\ fetchedEntries = <<>>
    /\ logsFetch = "pending"
    /\ arrivals = 0
    /\ lastMsg = BadJson
    /\ appended = <<>>


\* Message events of Spec: well-formed log frames, frames of another type,
\* and malformed frames.
Init == InitDash /\ InitMock /\ InitFeed /\ InitPage

RawMsgs(ts) ==
    { NewLog(ts, "cam1", Str(MsgIdentified)),
      NewLog(ts, "cam1", Str(MsgMixed)),
      NewLog(ts, "cam1", Str(MsgNearMiss)),
      NewLog(ts, "cam1", NotAString),
      Frame("new_log", FALSE, 0, "", NotAString),
      Frame("stats_update", TRUE, ts, "cam1", Str(MsgUpper)),
      BadJson }

Next ==
    \/ \E s \in 1..Len(sockets) : WsOpen(s)
    \/ \E s \in 1..Len(sockets) : WsRefused(s)
    \/ \E s \in 1..Len(sockets) : WsDropped(s)
    \/ \E s \in 1..Len(sockets) : WsClosed(s)
    \/ \E s \in 1..Len(sockets) : \E raw \in RawMsgs(arrivals + 1) :
           arrivals < MaxArrivals /\ WsMessage(s, raw)
    \/ ToggleMonitoring
    \/ RefreshCameras
    \/ \E cs \in CamLists : FetchCamerasOk(cs)
    \/ FetchCamerasFail
    \/ AlertsPollTick
    \/ \E n \in 0..MaxCount : AlertsPollOk(n)
    \/ AlertsPollFail
    \/ Unmount

Spec == Init /\ [][Next]_vars

\* The same page when the server accepts every connection attempt, with the
\* event loop's guarantees: a pending open or close event is dispatched, a
\* pending fetch settles.
NextAccepting ==
    \/ \E s \in 1..Len(sockets) : WsOpen(s)
    \/ \E s \in 1..Len(sockets) : WsDropped(s)
    \/ \E s \in 1..Len(sockets) : WsClosed(s)
    \/ ToggleMonitoring
    \/ \E cs \in CamLists : FetchCamerasOk(cs)
    \/ FetchCamerasFail
    \/ \E n \in 0..MaxCount : AlertsPollOk(n)
    \/ Unmount

SpecAccepting ==
    /\ Init
    /\ [][NextAccepting]_vars
    /\ WF_vars(\E s \in 1..Len(sockets) : WsOpen(s))
    /\ WF_vars(\E s \in 1..Len(sockets) : WsClosed(s))
    /\ WF_vars((\E cs \in CamLists : FetchCamerasOk(cs)) \/ FetchCamerasFail)
    /\ WF_vars(\E n \in 0..MaxCount : AlertsPollOk(n))

\* The page fed a long run of well-formed log frames, with the historical
\* fetch of EventLog.
FillTexts == <<MsgIdentified, MsgLeft, MsgUpper>>
FillMsg(n) == NewLog(n, "cam1", Str(FillTexts[(n % Len(FillTexts)) + 1]))

NextLogFill ==
    \/ \E s \in 1..Len(sockets) : WsOpen(s)
    \/ \E s \in 1..Len(sockets) :
           arrivals < MaxFill /\ WsMessage(s, FillMsg(arrivals + 1))
    \/ \E n \in 0..FetchLimit : FetchLogsOk(n)
    \/ FetchLogsFail

SpecLogFill == Init /\ [][NextLogFill]_vars

\* The simulated channel
SpecMock == Init /\ [][NextMock]_vars

\* One camera tile
SpecFeed == Init /\ [][NextFeed]_vars

InitAnyCams == InitDash /\ InitFeed /\ InitPage /\ \E cs \in MountLists : InitMockWith(cs)

\* The simulated channel mounted with any camera list
SpecAnyCams == InitAnyCams /\ [][NextAnyCams]_vars

\* The simulated channel used by two components
SpecShared == Init /\ [][NextShared]_vars

\* The analytics page
SpecPage == Init /\ [][NextPage]_vars

\* The motion of the simulated objects
SpecMotion == Init /\ [][NextMotion]_vars

----------------------------------------------------------------------------
(* Claims *)

\* C1: after any sequence of new_log messages the live event-log buffer
\* holds at most 100 entries, and they are the most recently arrived
\* entries, newest first (the oldest are the ones dropped).
C1_LogHoldsNewest ==
    /\ Len(eventLog) <= LogCap
    /\ Len(eventLog) = (IF Len(appended) < LogCap THEN Len(appended) ELSE LogCap)
    /\ \A i \in 1..Len(eventLog) : eventLog[i] = appended[Len(appended) + 1 - i]

\* More than 100 entries have arrived and the buffer is full.
C1_Witness == Len(appended) > LogCap /\ Len(eventLog) = LogCap

\* C2: the merged list handed to presentation (live entries followed by the
\* fetched historical entries) never has more than 100 entries.
C2_MergedCapped == Len(allEntries) <= LogCap

\* The upper-case form of the letters of 'identified'
UpperOf == [i |-> "I", d |-> "D", e |-> "E", n |-> "N", t |-> "T", f |-> "F"]

\* chars contains the word at some position, each letter in either case
ContainsAnyCase(chars, word) ==
    \E k \in 0..(Len(chars) - Len(word)) :
        \A j \in 1..Len(word) : chars[k + j] \in {word[j], UpperOf[word[j]]}

\* C3: each appended log entry changes the alert count by exactly 1 when
\* its message contains "identified" in any letter case, and by 0 otherwise.
C3_AlertPerEntry ==
    [][ appended' # appended =>
          alerts' = alerts +
              (IF /\ lastMsg'.message.tag = "string"
                  /\ ContainsAnyCase(lastMsg'.message.chars, Identified)
               THEN 1 ELSE 0) ]_vars

\* A mixed-case "identified" entry was appended and counted.
C3_Witness ==
    /\ appended # <<>>
    /\ lastMsg = NewLog(arrivals, "cam1", Str(MsgMixed))
    /\ appended[Len(appended)].message = Str(MsgMixed)
    /\ alerts >= 1

\* C7: whenever the status becomes 'disconnected' while the page is mounted
\* and monitoring is enabled, and the server accepts connections, the status
\* eventually returns to 'connected' (or the page is torn down).
C7_Reconnects ==
    [](mounted /\ monitoringEnabled /\ socketStatus = "disconnected"
        => <>(socketStatus = "connected" \/ ~mounted \/ ~monitoringEnabled))

AllowedSteps == { <<"connecting", "connected">>,
                  <<"connected", "disconnected">>,
                  <<"disconnected", "connecting">> }

\* C8: the status starts at 'connecting' and every change of it is one of
\* connecting -> connected, connected -> disconnected,
\* disconnected -> connecting.
C8_StatusSteps ==
    [][ socketStatus' # socketStatus =>
          <<socketStatus, socketStatus'>> \in AllowedSteps ]_vars

\* C4: identification is one-way: an object once presented as 'identified'
\* is never presented as 'tracking' again, whatever snapshot arrives.
C4_IdentifiedStays ==
    \A f \in CamIds : everIdentified[f] \cap TrackingIn(trackedObjects[f]) = {}

\* C5: every personId minted is distinct from every personId minted earlier
\* in the same process, also across a teardown and re-mount.
C5_PersonIdsDistinct ==
    \A i, j \in DOMAIN mintLog : i # j => mintLog[i].personId # mintLog[j].personId

\* C6: after teardown of the hook no status change, log entry or tracking
\* update is delivered, also when a timer scheduled before the teardown
\* fires afterwards.
C6_SilentAfterTeardown ==
    (out.statuses # <<>> \/ out.logs # <<>> \/ out.tracking # <<>>)
        => hookMounted[out.hook]

\* The list of camera c as its receiver sees it after the step
ShownNext(h, c) ==
    [i \in 1..Len(cTracked'[h][c]) |-> objs'[cTracked'[h][c][i]]]

\* C9: the tracked-object list of a camera changes only when a snapshot for
\* that camera is delivered; the drop, the reconnect and every other step
\* leave it as it was.
C9_ListsKeptAcrossDrop ==
    [][ \A h \in Hooks, c \in CamIds :
          ShownNext(h, c) # Shown(h, c) =>
              \E i \in 1..Len(out'.tracking) : out'.tracking[i].cameraId = c ]_vars

\* The status has dropped and recovered while a camera shows objects.
C9_Witness ==
    /\ out.kind = "reconnect"
    /\ cStatus[1] = "connected"
    /\ \E c \in CamIds : Len(Shown(1, c)) > 0 /\ Shown(1, c)[1].bbox[1] > 0

InFrame(b) ==
    /\ 0 <= b[1] /\ b[1] <= FrameSize - b[3]
    /\ 0 <= b[2] /\ b[2] <= FrameSize - b[4]

\* C10: after each motion step every moved object's box is inside
\* [0, 100 - width] x [0, 100 - height]; the step leaves width, height and
\* the objects of the other cameras unchanged.
C10_MotionInFrame ==
    [][ ticks' = ticks + 1 =>
          LET moved == Range(liveObjects[out'.hook][out'.cam]) IN
            /\ \A i \in moved :
                 /\ InFrame(objs'[i].bbox)
                 /\ objs'[i].bbox[3] = objs[i].bbox[3]
                 /\ objs'[i].bbox[4] = objs[i].bbox[4]
            /\ \A i \in DOMAIN objs \ moved : objs'[i] = objs[i]
            /\ \A c \in CamIds \ {out'.cam} :
                 liveObjects'[out'.hook][c] = liveObjects[out'.hook][c] ]_vars

\* An object created beyond the lower edge has been moved and sits at the
\* limit, another at the upper left corner, one on each camera.
C10_Witness ==
    /\ liveObjects[1]["cam1"] # <<>> /\ liveObjects[1]["cam2"] # <<>>
    /\ \E i, j \in DOMAIN objs :
         /\ objs[i].bbox[2] = FrameSize - objs[i].bbox[4]
         /\ objs[i].bbox[1] > 279
         /\ objs[j].bbox[1] = 0 /\ objs[j].bbox[2] = 0

\* C11: a tracking snapshot applied a second time in a row leaves the
\* tracked-object state as the first application made it, whatever the state
\* was before the first.
C11_SnapshotIdempotent ==
    [][ feedStep'.repeat => trackedObjects' = trackedObjects ]_vars

\* A snapshot with two objects for the tile's own camera was applied twice.
C11_Witness ==
    /\ feedStep.repeat
    /\ feedStep.raw.camera_id = feedStep.feed
    /\ Len(feedStep.raw.objects) = 2
    /\ trackedObjects[feedStep.feed] = feedStep.raw.objects

\* C13: a tracking update naming camera c changes at most the list of
\* camera c; an update naming a camera that is not in the camera list changes
\* nothing.
C13_OnlyNamedCamera ==
    [][ feedStep'.kind = "message" =>
          /\ \A g \in CamIds :
                g # feedStep'.raw.camera_id => trackedObjects'[g] = trackedObjects[g]
          /\ feedStep'.raw.camera_id \notin CamIds =>
                UNCHANGED <<trackedObjects, feedSocket, trackFetch, feedError,
                            everIdentified>> ]_vars

\* An update with objects for an unknown camera arrived while both tiles
\* show different lists.
C13_Witness ==
    /\ feedStep.kind = "message"
    /\ feedStep.raw.camera_id = StrayCam
    /\ feedStep.raw.objects # <<>>
    /\ trackedObjects["cam1"] # <<>>
    /\ trackedObjects["cam2"] # trackedObjects["cam1"]

\* A message the channel treats as malformed: unparseable text, a new_log
\* without its data object, or a new_log whose message is not a string
Malformed(raw) ==
    \/ raw.json = "bad"
    \/ raw.type = "new_log" /\ (~raw.hasData \/ raw.message.tag # "string")

\* C12: a malformed message is dropped: the event log and the alert count
\* are the same after it as before it.
C12_MalformedDropped ==
    [][ arrivals' = arrivals + 1 /\ Malformed(lastMsg') =>
          eventLog' = eventLog /\ alerts' = alerts ]_vars

\* The objects some camera of some hook currently holds
Live == UNION {Range(liveObjects[h][c]) : h \in Hooks, c \in CamIds}

C15_RegistryOnlyGrowsOnNew ==
    [][ Len(idEvents') = Len(idEvents) + 1 =>
          IF idEvents'[Len(idEvents')].returning
          THEN knownPeople' = knownPeople /\ personCounter' = personCounter
          ELSE /\ Len(knownPeople') = Len(knownPeople) + 1
               /\ SubSeq(knownPeople', 1, Len(knownPeople)) = knownPeople
               /\ knownPeople'[Len(knownPeople')].personId
                    = idEvents'[Len(idEvents')].personId
               /\ personCounter' = personCounter + 1 ]_vars

\* A returning individual was identified with one person known.
C15_Witness ==
    /\ idEvents # <<>>
    /\ idEvents[Len(idEvents)].returning
    /\ Len(knownPeople) = 1
    /\ personCounter = 1

\* The optional fields of a TrackedObject are as its type demands
WellTyped(o) ==
    IF o.type = "identified"
    THEN "personId" \in DOMAIN o /\ "name" \in DOMAIN o
    ELSE "personId" \notin DOMAIN o /\ "name" \notin DOMAIN o

\* C16: every object of the simulated channel, in its state and in the
\* tracking updates it emits, and every object a camera tile hands to its
\* overlay, has a personId and a display name when it is 'identified' and
\* neither when it is 'tracking'.
C16_IdentityFieldsMatchType ==
    /\ \A i \in DOMAIN objs : WellTyped(objs[i])
    /\ \A h \in Hooks, c \in CamIds :
         \A i \in 1..Len(Shown(h, c)) : WellTyped(Shown(h, c)[i])
    /\ \A l \in WireLists : \A i \in 1..Len(l) : WellTyped(Overlay(l[i]))

\* A camera shows an identified and a tracking object side by side.
C16_Witness ==
    \E h \in Hooks, c \in CamIds :
        /\ \E i \in 1..Len(Shown(h, c)) : Shown(h, c)[i].type = "identified"
        /\ \E i \in 1..Len(Shown(h, c)) : Shown(h, c)[i].type = "tracking"

\* The dashboard sockets that are connecting or open
LiveSockets == {s \in DOMAIN sockets : sockets[s] \in {"connecting", "open"}}

\* C17: the dashboard channel is closed on teardown (unmount or disabling
\* monitoring) whichever state it was in: at most one dashboard socket is
\* connecting or open at any time, it is the one the current effect created,
\* and none is after teardown.
C17_ChannelScoped ==
    /\ Cardinality(LiveSockets) <= 1
    /\ LiveSockets \subseteq {Len(sockets)}
    /\ (~mounted \/ ~monitoringEnabled) => LiveSockets = {}

\* The page was unmounted while its second channel was open, after
\* monitoring had been switched off and on.
C17_Witness ==
    /\ ~mounted
    /\ Len(sockets) = 2
    /\ sockets[2] = "closing"
    /\ socketStatus = "connected"

\* C18: every change of the status to 'connected' and every change from
\* 'connected' to 'disconnected' appends exactly one entry to the event log.
C18_StatusChangesLogged ==
    [][ (socketStatus' # socketStatus /\
           (socketStatus' = "connected" \/
              (socketStatus = "connected" /\ socketStatus' = "disconnected")))
          => Len(appended') = Len(appended) + 1 ]_vars

\* The entries of a step's log calls that tell a departure
Departures(logs) ==
    SelectSeq(logs, LAMBDA e :
        e.message[Len(e.message)] \in {" left the view.", "Human left the view."})

\* C19: a tick that removes an object from a camera's list calls onLogEntry
\* with exactly one departure entry, for that camera, naming the object when
\* it was identified and 'Human' when it was not; the snapshot of that tick
\* does not hold the object.  A tick that removes nothing tells no departure.
C19_DepartureLogged ==
    [][ ticks' = ticks + 1 =>
          LET h    == out'.hook
              c    == out'.cam
              gone == Range(liveObjects[h][c]) \ Range(liveObjects'[h][c])
          IN  /\ Cardinality(gone) <= 1
              /\ Len(Departures(out'.logs)) = Cardinality(gone)
              /\ \A x \in gone :
                    /\ Departures(out'.logs)[1].camera = c
                    /\ Departures(out'.logs)[1].message =
                         (IF objs[x].type = "identified"
                          THEN <<objs[x].name, " left the view.">>
                          ELSE <<"Human left the view.">>)
                    /\ x \notin Range(out'.tracking[1].objects)
                    /\ out'.tracking[1].cameraId = c ]_vars

\* An identified object has just left: the tick told its departure by name.
C19_Witness ==
    /\ out.kind = "tick"
    /\ \E x \in DOMAIN objs :
         /\ objs[x].type = "identified"
         /\ x \notin Live
         /\ Departures(out.logs) = <<Entry(out.cam, <<objs[x].name, " left the view.">>)>>

\* C20: what OverlayBox draws for the objects a camera tile holds: dashed
\* border and 'Human' for 'tracking', solid border and the display name for
\* 'identified', with the loyalty marker exactly when isLoyalMember, and
\* the confidence figure exactly when the object has a confidence value,
\* the value 0 included.
C20_OverlayProjection ==
    \A f \in CamIds : \A i \in 1..Len(trackedObjects[f]) :
        LET t == Overlay(trackedObjects[f][i])
            r == OverlayBox(t)
        IN  /\ t.type = "tracking" =>
                  r.borderStyle = "border-dashed" /\ r.label = "Human"
            /\ t.type = "identified" =>
                  /\ r.borderStyle = "border-solid" /\ r.label = t.name
                  /\ r.star = t.isLoyalMember
            /\ r.figure = ("confidence" \in DOMAIN t)

\* C21: while the page is mounted, the status is 'connected' only while the
\* socket the current effect owns is open, and is not 'disconnected' while
\* that socket is open.
C21_StatusTracksChannel ==
    mounted =>
      /\ socketStatus = "connected" =>
            OwnedWs # 0 /\ sockets[OwnedWs] = "open"
      /\ (OwnedWs # 0 /\ sockets[OwnedWs] = "open") =>
            socketStatus # "disconnected"

\* C22: no interval callback throws, whatever camera list the hook was
\* mounted with.
C22_NoTickThrows == out.kind # "throw"

\* C24: every object of every tracking update the hook emits lies inside
\* the frame, an object created in that tick included.
C24_EmittedInFrame ==
    \A u \in 1..Len(out.tracking) :
        \A i \in Range(out.tracking[u].objects) : InFrame(objs[i].bbox)

\* C25: a tracking update or a camera log entry is delivered only while the
\* status the hook reported last is 'connected'.
C25_DeliveredOnlyConnected ==
    (out.tracking # <<>> \/ \E i \in 1..Len(out.logs) : out.logs[i].camera # "SYSTEM")
        => cStatus[out.hook] = "connected"

\* C28: each identified object a mounted hook holds carries the personId,
\* the name and the loyalty flag of an entry of knownPeople.
C28_LiveObjectsRegistered ==
    \A h \in Instances : hookMounted[h] =>
        \A c \in DOMAIN liveObjects[h] : \A i \in Range(liveObjects[h][c]) :
            objs[i].type = "identified" =>
                \E k \in DOMAIN knownPeople :
                    /\ knownPeople[k].personId = objs[i].personId
                    /\ knownPeople[k].name = objs[i].name
                    /\ knownPeople[k].isLoyalMember = objs[i].isLoyalMember

\* C29: in the list of one camera no two objects carry the same personId.
C29_OnePerPersonPerCamera ==
    \A h \in Hooks : \A c \in DOMAIN liveObjects[h] :
        \A i, j \in Range(liveObjects[h][c]) :
            (i # j /\ objs[i].type = "identified" /\ objs[j].type = "identified")
                => objs[i].personId # objs[j].personId

\* C23: a wire object that carries a user id is projected as 'identified'
\* with that id as its personId, and one without as 'tracking'.
C23_WireIdentityProjected ==
    \A f \in CamIds : \A i \in 1..Len(trackedObjects[f]) :
        LET w == trackedObjects[f][i]
            t == Overlay(w)
        IN  IF w.user_id # "null"
            THEN t.type = "identified" /\ t.personId = w.user_id
            ELSE t.type = "tracking"

\* C26: once the initial fetch has been applied or has failed, the list a
\* camera tile shows is the snapshot produced last for its camera.
C26_ShowsNewestSnapshot ==
    \A f \in CamIds :
        trackFetch[f] \in {"done", "failed"} => trackedObjects[f] = newest[f]

\* C27: the alert count never decreases.
C27_AlertsNeverDecrease == [][ alerts' >= alerts ]_vars

\* The logs the analytics page has been given: those of the fetch it has
\* applied and those pushed to it
GivenLogs ==
    Range(pushed) \cup (IF dataFetch = "done" THEN Range(fetchedLogs) ELSE {})

\* C30: the analytics page's log list is the 10 most recent of the logs it
\* has been given (fetched and pushed), newest first.
C30_TenMostRecent ==
    /\ Len(recentLogs) = Min(PageLimit, Cardinality(GivenLogs))
    /\ \A i \in 1..Len(recentLogs) :
         /\ recentLogs[i] \in GivenLogs
         /\ Cardinality({g \in GivenLogs : g > recentLogs[i]}) = i - 1

====
